---- MODULE Spec2Model ----
(***************************************************************************)
(* The streaming engine of tsound: createDynamicAuidoPlayer exists in two  *)
(* builds.  "sab" is the shared-memory/atomic build (src/unnamed/part_000):*)
(* the main thread writes quantized samples into a SharedArrayBuffer and   *)
(* the AudioWorklet processor is meant to drain it.  "closure" is the      *)
(* message-passing build (src/src/audio/streaming.ts): chunks are posted   *)
(* to the worklet, whose onmessage handler keeps the ring buffer.          *)
(* A behaviour picks one build in Init and runs its operations.            *)
(*                                                                         *)
(* QuantizerSpec runs the sample quantizer of the sab build on its own,    *)
(* one sample of [-1, 1] per behaviour.  SchedulerSpec runs the            *)
(* ScrubPlayer of index.js: start(), stop(), scrub(), the animation-frame  *)
(* callbacks it requests, and the clock.                                   *)
(*                                                                         *)
(* Samples are rationals <<numerator, denominator>>; <<0, 0>> is NaN.      *)
(***************************************************************************)
EXTENDS Integers, Sequences, FiniteSets, TLC

\* ---------------------------------------------------------------- bounds
\* capacity of the ring buffer, Math.ceil(maxQueuedContentSeconds * sampleRate)
maxQueuedSamples == 3
\* longest chunk handed to queueMoreContent (one more than the capacity)
MaxChunk == maxQueuedSamples + 1
\* longest output quantum the host asks process() to fill
MaxQuantum == 2
\* messages that may wait on the worklet port at once
MaxPort == 1
\* cap on the numQueuedSamples counter of the sab build (a Uint32 in the code)
MaxCounter == 2 * maxQueuedSamples + 1
\* width of the quantized integers (32 in the code, scaled to fit TLC's integers)
W == 6
\* chunk samples are +-1/SampleDen
SampleDen == 2

\* timeInterval of the scrub player, bufferSize / sampleRate, in clock units
TimeInterval == 2
\* last reading of the clock performance.now() / 1000 (the first is 1)
MaxTime == 4
\* animation-frame callbacks that may be pending at once
MaxFrames == 2
\* cap on the history's count of callback invocations
MaxCalls == 3
\* bufferSize of the mixer and of its tracks
BufferSize == 2
\* longest list of tracks added to the mixer
MaxTracks == 2

INT32_MIN == -(2 ^ (W - 1))
INT32_MAX == (2 ^ (W - 1)) - 1

Zero == <<0, 1>>
NaN == <<0, 0>>
\* a chunk alternates two sample values, so that neighbours always differ
Chunk(n) == [k \in 1..n |-> IF k % 2 = 1 THEN <<1, SampleDen>> ELSE <<-1, SampleDen>>]
Chunks == {Chunk(n) : n \in 1..MaxChunk}
Slots == 0..(maxQueuedSamples - 1)
Min(a, b) == IF a < b THEN a ELSE b
Max(a, b) == IF a > b THEN a ELSE b
Silence(n) == [k \in 1..n |-> Zero]
Drop(s, n) == SubSeq(s, Min(n, Len(s)) + 1, Len(s))
Take(s, n) == SubSeq(s, 1, Min(n, Len(s)))

VARIABLES
  impl,                     \* which build of createDynamicAuidoPlayer runs
  sharedArray,              \* sab: Int32Array of quantized samples
  sharedArrayMachineState,  \* sab: Uint32Array of the four machine variables
  worklet,                  \* sab: fields of the OutputProcessor instance
  call,                     \* sab: the queueMoreContent invocation in progress
  buffer,                   \* closure: Float32Array ring buffer
  remainingQueuedContent,   \* closure: number of unread samples
  playHead,                 \* closure: this.playHead
  writeHead,                \* closure: this.writeHead
  port,                     \* messages posted to the worklet, not yet handled
  outputChannel,            \* the quantum written by the latest process()
  callOutcome,              \* what the latest queueMoreContent gave its caller
  last,                     \* history: the operation that completed last
  netQueued,                \* history: accepted chunk lengths minus real samples drained
  pending,                  \* history: accepted samples not yet drained, oldest first
  exceeded,                 \* history: some enqueue asked for more than the capacity
  raced,                    \* history: some process() ran between the steps of an enqueue
  quantizer,                \* a sample on its way through the quantizer alone
  scrubPlayer,              \* index.js: fields of the ScrubPlayer instance
  now,                      \* index.js: performance.now() / 1000
  frames,                   \* index.js: pending requestAnimationFrame callbacks
  tick,                     \* history: the scrub player's latest operation
  mixer,                    \* index.js: fields of the Mixer instance
  track,                    \* index.js: the MixerTrack instances, by name
  master,                   \* index.js: window.master
  pushed                    \* history: what the mixer's latest operation did

engine == <<impl, sharedArray, sharedArrayMachineState, worklet, call, buffer,
          remainingQueuedContent, playHead, writeHead, port, outputChannel,
          callOutcome, last, netQueued, pending, exceeded, raced>>
\* what the streaming engine leaves alone
outside == <<quantizer, scrubPlayer, now, frames, tick, mixer, track, master, pushed>>
scheduler == <<scrubPlayer, now, frames, tick>>
mixing == <<mixer, track, master, pushed>>
vars == <<engine, quantizer, scheduler, mixing>>
sabVars == <<sharedArray, sharedArrayMachineState, worklet, call>>
closureVars == <<buffer, remainingQueuedContent, playHead, writeHead>>
history == <<last, netQueued, pending, exceeded, raced>>

\* ------------------------------------------------------------ sab build
varMap == [playhead |-> 0, writeHead |-> 1, numQueuedSamples |-> 2,
           contentMutexIsLocked |-> 3]
numVars == Cardinality(DOMAIN varMap)

getMachineVarAtomic(varName) == sharedArrayMachineState[varMap[varName]]
setMachineVarAtomic(m, varName, value) == [m EXCEPT ![varMap[varName]] = value]

\* the setup message under the key the handler destructures
SetupMessageFixed ==
  [sharedArrayBuffer |-> "sharedArrayBuffer",
   sharedArrayBufferMachineState |-> "sharedArrayBufferMachineState",
   varMap |-> "varMap"]
\* lines 310-314: the object posted to the worklet right after its creation
SetupMessage ==
  [sbaredArrayBuffer |-> "sharedArrayBuffer",
   sharedArrayBufferMachineState |-> "sharedArrayBufferMachineState",
   varMap |-> "varMap"]

\* destructuring a property of event.data
Field(data, name) == IF name \in DOMAIN data THEN data[name] ELSE "undefined"
Truthy(v) == v \notin {"null", "undefined"}

NoCall == [pc |-> "idle", contentSamples |-> <<>>, numAlreadyQueuedSamples |-> 0,
           writeHead |-> 0, i |-> 0, drained |-> 0, interleaved |-> FALSE]

\* what the history keeps of a completed operation: its argument length, its
\* outcome, the machine variables before and after it; for a drain, whether the
\* lock was held, whether the worklet had handled its setup message, whether an
\* enqueue was part-way, the number of real samples produced and the samples
\* that were due; for an enqueue, whether a drain ran between its steps and how
\* many real samples such drains produced
NoOp == [op |-> "none", len |-> 0, outcome |-> "ok", locked |-> FALSE, setup |-> FALSE,
         queuedBefore |-> 0, playheadBefore |-> 0,
         queuedAfter |-> 0, playheadAfter |-> 0, writeheadAfter |-> 0,
         numReal |-> 0, expect |-> <<>>, drained |-> 0, interleaved |-> FALSE]

\* the quantizer with Math.round in the place of Math.floor
EncodeRounded(sample) ==
  LET tInt == (2 * (sample[2] + sample[1]) * (INT32_MAX - INT32_MIN) + 2 * sample[2])
                \div (4 * sample[2])
  IN tInt + INT32_MIN

\* the sample quantizer of queueMoreContent: float in [-1,1] to integer
Encode(sample) ==
  LET tInt == ((sample[2] + sample[1]) * (INT32_MAX - INT32_MIN)) \div (2 * sample[2])
  IN tInt + INT32_MIN

\* a decoding to the middle of the interval the integer stands for
DecodeToMiddle(int32value) ==
  <<2 * (int32value - INT32_MIN) + 1 - (INT32_MAX - INT32_MIN), INT32_MAX - INT32_MIN>>

\* the decoding in process(): integer to float
Decode(int32value) ==
  <<2 * (int32value - INT32_MIN) - (INT32_MAX - INT32_MIN), INT32_MAX - INT32_MIN>>

\* no sample is on its way through the quantizer alone
QuantizerIdle == quantizer = [step |-> "idle", sample |-> Zero, int32Value |-> 0, output |-> Zero]

EngineInit ==
  /\ impl \in {"sab", "closure"}
  /\ sharedArray = [s \in Slots |-> 0]
  /\ sharedArrayMachineState = [v \in 0..(numVars - 1) |-> 0]
  /\ worklet = [sharedArrayBuffer |-> "null", sharedArrayBufferMachineState |-> "null",
                varMap |-> "null"]
  /\ call = NoCall
  /\ buffer = [s \in Slots |-> Zero]
  /\ remainingQueuedContent = 0
  /\ playHead = 0
  /\ writeHead = 0
  /\ port = IF impl = "sab" THEN <<SetupMessage>> ELSE <<>>
  /\ outputChannel = <<>>
  /\ callOutcome = "none"
  /\ last = NoOp
  /\ netQueued = 0
  /\ pending = <<>>
  /\ exceeded = FALSE
  /\ raced = FALSE

\* the reading of a field that does not exist
Undefined == -1
\* what the history keeps of the scrub player: its latest operation, whether
\* that invoked the callback, whether the callback threw and who received the
\* error, whether it asked for an animation frame; since the latest start():
\* the clock reading of the start, of the latest invocation and of the one
\* before it, the argument of the latest invocation, the number of
\* invocations, whether stop() or scrub() was called, and whether the player
\* was running when start() was called; the time of a scrub() that no
\* invocation has followed yet
NoTick == [op |-> "none", fired |-> FALSE, arg |-> 0, threw |-> FALSE, surfaced |-> "none",
           requested |-> FALSE, startedAt |-> 0, firedAt |-> 0, previous |-> 0,
           calls |-> 0, halted |-> TRUE,
           scrubbed |-> FALSE, wasRunning |-> FALSE, sought |-> Undefined]
\* index.js lines 597-603: the ScrubPlayer as its constructor leaves it (the
\* field "inital" does not exist yet), no animation frame requested
SchedulerIdle ==
  /\ scrubPlayer = [current |-> 0, initial |-> 0, inital |-> Undefined, running |-> FALSE,
                    timeInterval |-> TimeInterval]
  /\ now = 1
  /\ frames = 0
  /\ tick = NoTick

\* a track buffer alternates v and v / 2, so that neighbours differ
TrackData(v) == [k \in 1..BufferSize |-> IF k % 2 = 1 THEN v ELSE <<v[1], 2 * v[2]>>]
\* index.js lines 362-363: the two tracks of the editor's script
TrackNames == {"track1", "track2"}
\* index.js lines 551-558 and 431-434: the Mixer as its constructor leaves it,
\* window.master before turnMasterOn() has opened the output stream
NoPush == [op |-> "none", queued |-> <<>>, logged |-> FALSE]
MixerIdle ==
  /\ mixer = [tracks |-> <<>>, bufferSize |-> BufferSize, data |-> [k \in 1..BufferSize |-> Zero]]
  /\ track = [name \in TrackNames |-> [data |-> TrackData(Zero), volume |-> <<1, 1>>]]
  /\ master = [outputStream |-> "undefined"]
  /\ pushed = NoPush

Init == EngineInit /\ QuantizerIdle /\ SchedulerIdle /\ MixerIdle

\* history of an enqueue of len samples that the engine took in
Accept(data) ==
  LET over == netQueued + Len(data) > maxQueuedSamples
  IN /\ exceeded' = (exceeded \/ over)
     /\ netQueued' = IF exceeded' THEN 0 ELSE netQueued + Len(data)
     /\ pending' = IF exceeded' THEN <<>> ELSE pending \o data

\* history of a drain that handed out numReal real samples
Consume(numReal) ==
  /\ exceeded' = exceeded
  /\ netQueued' = IF exceeded THEN 0 ELSE netQueued - numReal
  /\ pending' = IF exceeded THEN <<>> ELSE Drop(pending, numReal)

\* ---- main thread: queueMoreContent, one action per shared-memory access
\* line 318: const numAlreadyQueuedSamples = getNumQueuedSamplesAtomic()
QueueMoreContent(contentSamples) ==
  /\ impl = "sab"
  /\ call.pc = "idle"
  /\ getMachineVarAtomic("numQueuedSamples") + Len(contentSamples) <= MaxCounter
  /\ call' = [NoCall EXCEPT !.pc = IF getMachineVarAtomic("numQueuedSamples") = 0
                                   THEN "anchor" ELSE "lock",
                            !.contentSamples = contentSamples,
                            !.numAlreadyQueuedSamples = getMachineVarAtomic("numQueuedSamples")]
  /\ UNCHANGED <<outside, impl, sharedArray, sharedArrayMachineState, worklet, closureVars,
                 port, outputChannel, callOutcome, history>>

\* line 320: setWriteHeadAtomic(getPlayheadAtomic())
ReanchorWriteHead ==
  /\ call.pc = "anchor"
  /\ sharedArrayMachineState' =
       setMachineVarAtomic(sharedArrayMachineState, "writeHead", getMachineVarAtomic("playhead"))
  /\ call' = [call EXCEPT !.pc = "lock"]
  /\ UNCHANGED <<outside, impl, sharedArray, worklet, closureVars, port, outputChannel,
                 callOutcome, history>>

\* line 324: setContentMutexIsLockedAtomic(1)
LockContentMutex ==
  /\ call.pc = "lock"
  /\ sharedArrayMachineState' =
       setMachineVarAtomic(sharedArrayMachineState, "contentMutexIsLocked", 1)
  /\ call' = [call EXCEPT !.pc = "readWriteHead"]
  /\ UNCHANGED <<outside, impl, sharedArray, worklet, closureVars, port, outputChannel,
                 callOutcome, history>>

\* line 325: const writeHead = getWriteHeadAtomic()
ReadWriteHead ==
  /\ call.pc = "readWriteHead"
  /\ call' = [call EXCEPT !.pc = "write", !.writeHead = getMachineVarAtomic("writeHead")]
  /\ UNCHANGED <<outside, impl, sharedArray, sharedArrayMachineState, worklet, closureVars,
                 port, outputChannel, callOutcome, history>>

\* line 337: the slot that iteration i of the copy loop writes
targetIndex(head, i) == (head + i) % maxQueuedSamples

\* lines 332-339: one iteration of the copy loop
WriteSample ==
  /\ call.pc = "write"
  /\ call.i < Len(call.contentSamples)
  /\ sharedArray' = [sharedArray EXCEPT ![targetIndex(call.writeHead, call.i)] =
                                          Encode(call.contentSamples[call.i + 1])]
  /\ call' = [call EXCEPT !.i = call.i + 1]
  /\ UNCHANGED <<outside, impl, sharedArrayMachineState, worklet, closureVars, port,
                 outputChannel, callOutcome, history>>

\* the copy loop left without the lock being cleared
UnlockContentMutexForgotten ==
  /\ call.pc = "write"
  /\ call.i = Len(call.contentSamples)
  /\ sharedArrayMachineState' = sharedArrayMachineState
  /\ call' = [call EXCEPT !.pc = "setNumQueued"]
  /\ UNCHANGED <<outside, impl, sharedArray, worklet, closureVars, port, outputChannel,
                 callOutcome, history>>

\* line 340: setContentMutexIsLockedAtomic(0), once the loop is over
UnlockContentMutex ==
  /\ call.pc = "write"
  /\ call.i = Len(call.contentSamples)
  /\ sharedArrayMachineState' =
       setMachineVarAtomic(sharedArrayMachineState, "contentMutexIsLocked", 0)
  /\ call' = [call EXCEPT !.pc = "setNumQueued"]
  /\ UNCHANGED <<outside, impl, sharedArray, worklet, closureVars, port, outputChannel,
                 callOutcome, history>>

\* the count stored without the samples that were already queued
NumQueuedAfterLost(numAlreadyQueuedSamples, subBufferSize) == subBufferSize
\* line 341: the count stored after the copy
NumQueuedAfter(numAlreadyQueuedSamples, subBufferSize) ==
  numAlreadyQueuedSamples + subBufferSize

\* line 341: setNumQueuedSamplesAtomic(numAlreadyQueuedSamples + subBufferSize)
SetNumQueuedSamples ==
  /\ call.pc = "setNumQueued"
  /\ sharedArrayMachineState' =
       setMachineVarAtomic(sharedArrayMachineState, "numQueuedSamples",
         NumQueuedAfter(call.numAlreadyQueuedSamples, Len(call.contentSamples)))
  /\ call' = [call EXCEPT !.pc = "setWriteHead"]
  /\ UNCHANGED <<outside, impl, sharedArray, worklet, closureVars, port, outputChannel,
                 callOutcome, history>>

\* line 342: setWriteHeadAtomic((writeHead + subBufferSize) % maxQueuedSamples); the call returns
SetWriteHead ==
  /\ call.pc = "setWriteHead"
  /\ sharedArrayMachineState' =
       setMachineVarAtomic(sharedArrayMachineState, "writeHead",
         (call.writeHead + Len(call.contentSamples)) % maxQueuedSamples)
  /\ callOutcome' = "returned"
  /\ last' = [NoOp EXCEPT !.op = "enqueue", !.len = Len(call.contentSamples),
                          !.queuedBefore = call.numAlreadyQueuedSamples,
                          !.playheadBefore = getMachineVarAtomic("playhead"),
                          !.queuedAfter = sharedArrayMachineState'[varMap["numQueuedSamples"]],
                          !.playheadAfter = sharedArrayMachineState'[varMap["playhead"]],
                          !.writeheadAfter = sharedArrayMachineState'[varMap["writeHead"]],
                          !.drained = call.drained,
                          !.interleaved = call.interleaved]
  /\ Accept(call.contentSamples)
  /\ call' = NoCall
  /\ UNCHANGED <<outside, impl, sharedArray, worklet, closureVars, port, outputChannel, raced>>

\* ---- worklet: OutputProcessor of the sab build
\* lines 167-175: the handler of the setup message
OnSetupMessage ==
  /\ impl = "sab"
  /\ port # <<>>
  /\ LET data == Head(port)
     IN worklet' = [sharedArrayBuffer |-> Field(data, "sharedArrayBuffer"),
                    sharedArrayBufferMachineState |-> Field(data, "sharedArrayBufferMachineState"),
                    varMap |-> Field(data, "varMap")]
  /\ port' = Tail(port)
  /\ UNCHANGED <<outside, impl, sharedArray, sharedArrayMachineState, call, closureVars,
                 outputChannel, callOutcome, history>>

\* process() without its early returns
ProcessNeverReturnsEarly(w, m) == FALSE
\* lines 251-262: the four early returns of process()
ProcessReturnsEarly(w, m) ==
  \/ ~Truthy(w.sharedArrayBuffer)
  \/ ~Truthy(w.sharedArrayBufferMachineState)
  \/ ~Truthy(w.varMap)
  \/ m[varMap["contentMutexIsLocked"]] = 1

\* process() waiting until the producer clears the lock
ProcessSpinsOnLock(m) == m[varMap["contentMutexIsLocked"]] = 1
\* lines 250-288: process() holds no loop or wait on the lock (a held lock is
\* answered by the return of lines 260-262), so no machine state holds it up
ProcessWaitsOnLock(m) == FALSE

\* line 274: the index that iteration i of the fill loop reads
sourceIndex(playhead, i) == (playhead + i) % maxQueuedSamples

\* line 274-276: the value read for output slot i; an index past the typed array reads undefined
ReadSample(m, index) ==
  IF index \in DOMAIN m THEN Decode(m[index]) ELSE NaN

\* lines 250-288: process(), with a quantum of n samples
ProcessSab(n) ==
  /\ impl = "sab"
  /\ ~ProcessWaitsOnLock(sharedArrayMachineState)
  /\ LET early == ProcessReturnsEarly(worklet, sharedArrayMachineState)
         samplesLeft == getMachineVarAtomic("numQueuedSamples")
         numToFill == IF early THEN 0 ELSE Min(n, samplesLeft)
         playhead == sharedArrayMachineState[varMap["playhead"]]
         filled == [k \in 1..n |->
                      IF k <= numToFill
                      THEN ReadSample(sharedArrayMachineState, sourceIndex(playhead, k - 1))
                      ELSE Zero]
     IN /\ outputChannel' = IF early THEN Silence(n) ELSE filled
        /\ sharedArrayMachineState' =
             IF early THEN sharedArrayMachineState
             ELSE setMachineVarAtomic(
                    setMachineVarAtomic(sharedArrayMachineState, "playhead",
                                        (playhead + numToFill) % maxQueuedSamples),
                    "numQueuedSamples", Max(0, samplesLeft - n))
        /\ last' = [NoOp EXCEPT !.op = "drain", !.len = n,
                                !.queuedBefore = samplesLeft,
                                !.playheadBefore = playhead,
                                !.locked = (getMachineVarAtomic("contentMutexIsLocked") = 1),
                                !.setup = (port = <<>>),
                                !.interleaved = (call.pc # "idle"),
                                !.queuedAfter = sharedArrayMachineState'[varMap["numQueuedSamples"]],
                                !.playheadAfter = sharedArrayMachineState'[varMap["playhead"]],
                                !.writeheadAfter = sharedArrayMachineState'[varMap["writeHead"]],
                                !.numReal = numToFill,
                                !.expect = IF exceeded THEN <<>> ELSE Take(pending, numToFill)]
        /\ Consume(numToFill)
        /\ raced' = (raced \/ call.pc # "idle")
        /\ call' = IF call.pc = "idle" THEN call
                   ELSE [call EXCEPT !.drained = call.drained + numToFill,
                                     !.interleaved = TRUE]
  /\ UNCHANGED <<outside, impl, sharedArray, worklet, closureVars, port, callOutcome>>

\* -------------------------------------------------------- closure build
\* the index counted from the play head without the wrap
indexFromPlayHeadUnwrapped(index) == playHead + index
\* lines 159-161
indexFromPlayHead(index) == (playHead + index) % maxQueuedSamples
\* lines 163-165
indexFromWriteHead(index) == (writeHead + index) % maxQueuedSamples

\* lines 221-225: queueMoreContent posts the chunk and returns
QueueMoreContentClosure(contentSamples) ==
  /\ impl = "closure"
  /\ Len(port) < MaxPort
  /\ port' = Append(port, contentSamples)
  /\ callOutcome' = "returned"
  /\ UNCHANGED <<outside, impl, sabVars, closureVars, outputChannel, history>>

\* the copy loop with the count of unread samples never incremented
RECURSIVE CopyLoopNoCount(_, _, _, _)
CopyLoopNoCount(buf, remaining, data, i) ==
  IF i >= Len(data) THEN [buffer |-> buf, remaining |-> remaining, outcome |-> "ok"]
  ELSE IF remaining < maxQueuedSamples
  THEN LET queued == [buf EXCEPT ![indexFromPlayHead(remaining)] = data[i + 1]]
           again == [queued EXCEPT ![indexFromWriteHead(remaining + 1 + i)] = data[i + 1]]
       IN CopyLoopNoCount(again, remaining, data, i + 1)
  ELSE [buffer |-> buf, remaining |-> remaining, outcome |-> "CapacityExceededError"]

\* lines 133-154: the copy loop of the handler, from iteration i (0-based) on;
\* a throw leaves the fields as the earlier iterations set them
RECURSIVE CopyLoop(_, _, _, _)
CopyLoop(buf, remaining, data, i) ==
  IF i >= Len(data) THEN [buffer |-> buf, remaining |-> remaining, outcome |-> "ok"]
  ELSE IF remaining < maxQueuedSamples
  THEN LET queued == [buf EXCEPT ![indexFromPlayHead(remaining)] = data[i + 1]]
           again == [queued EXCEPT ![indexFromWriteHead(remaining + 1 + i)] = data[i + 1]]
       IN CopyLoop(again, remaining + 1, data, i + 1)
  ELSE [buffer |-> buf, remaining |-> remaining, outcome |-> "CapacityExceededError"]

\* the handler with the resets written after its throws carried out
OnMessageResets ==
  /\ impl = "closure"
  /\ port # <<>>
  /\ LET data == Head(port)
         numSamples == Len(data)
         done == IF numSamples > maxQueuedSamples
                 THEN [buffer |-> buffer, remaining |-> remainingQueuedContent,
                       outcome |-> "OversizeChunkError"]
                 ELSE CopyLoop(buffer, remainingQueuedContent, data, 0)
     IN /\ buffer' = IF done.outcome = "ok" THEN done.buffer ELSE [s \in Slots |-> Zero]
        /\ remainingQueuedContent' = IF done.outcome = "ok" THEN done.remaining ELSE 0
        /\ playHead' = IF done.outcome = "ok" THEN playHead ELSE 0
        /\ writeHead' = IF done.outcome = "ok" THEN writeHead ELSE 0
        /\ last' = [NoOp EXCEPT !.op = "enqueue", !.len = numSamples,
                                !.outcome = done.outcome,
                                !.queuedBefore = remainingQueuedContent,
                                !.playheadBefore = playHead,
                                !.queuedAfter = done.remaining,
                                !.playheadAfter = playHead,
                                !.writeheadAfter = writeHead]
        /\ Accept(data)
        /\ raced' = raced
  /\ port' = Tail(port)
  /\ UNCHANGED <<outside, impl, sabVars, outputChannel, callOutcome>>

\* lines 114-156: port.onmessage of the closure build
OnMessage ==
  /\ impl = "closure"
  /\ port # <<>>
  /\ LET data == Head(port)
         numSamples == Len(data)
         done == IF numSamples > maxQueuedSamples
                 THEN [buffer |-> buffer, remaining |-> remainingQueuedContent,
                       outcome |-> "OversizeChunkError"]
                 ELSE CopyLoop(buffer, remainingQueuedContent, data, 0)
     IN /\ buffer' = done.buffer
        /\ remainingQueuedContent' = done.remaining
        /\ last' = [NoOp EXCEPT !.op = "enqueue", !.len = numSamples,
                                !.outcome = done.outcome,
                                !.queuedBefore = remainingQueuedContent,
                                !.playheadBefore = playHead,
                                !.queuedAfter = done.remaining,
                                !.playheadAfter = playHead,
                                !.writeheadAfter = writeHead]
        /\ Accept(data)
        /\ raced' = raced
  /\ port' = Tail(port)
  /\ UNCHANGED <<outside, impl, sabVars, playHead, writeHead, outputChannel, callOutcome>>

\* the fill loop ending at the first underflow, the rest of the quantum unwritten
RECURSIVE FillLoopStopsAtUnderflow(_, _, _, _)
FillLoopStopsAtUnderflow(out, remaining, numToProcess, i) ==
  IF i >= numToProcess \/ remaining = 0 THEN [outputChannel |-> out, remaining |-> remaining]
  ELSE FillLoopStopsAtUnderflow(Append(out, buffer[indexFromPlayHead(i)]), remaining - 1,
                                numToProcess, i + 1)

\* lines 179-193: the fill loop of process(), from output slot i (0-based) on
RECURSIVE FillLoop(_, _, _, _)
FillLoop(out, remaining, numToProcess, i) ==
  IF i >= numToProcess THEN [outputChannel |-> out, remaining |-> remaining]
  ELSE IF remaining = 0
  THEN FillLoop(Append(out, Zero), remaining, numToProcess, i + 1)
  ELSE FillLoop(Append(out, buffer[indexFromPlayHead(i)]), remaining - 1, numToProcess, i + 1)

\* lines 175-199: process() of the closure build, with a quantum of numToProcess samples
ProcessClosure(numToProcess) ==
  /\ impl = "closure"
  /\ LET done == FillLoop(<<>>, remainingQueuedContent, numToProcess, 0)
         numReal == remainingQueuedContent - done.remaining
     IN /\ outputChannel' = done.outputChannel
        /\ remainingQueuedContent' = done.remaining
        /\ playHead' = (playHead + numToProcess) % maxQueuedSamples
        /\ last' = [NoOp EXCEPT !.op = "drain", !.len = numToProcess, !.setup = TRUE,
                                !.queuedBefore = remainingQueuedContent,
                                !.playheadBefore = playHead,
                                !.queuedAfter = done.remaining,
                                !.playheadAfter = playHead',
                                !.writeheadAfter = writeHead,
                                !.numReal = numReal,
                                !.expect = IF exceeded THEN <<>> ELSE Take(pending, numReal)]
        /\ Consume(numReal)
        /\ raced' = raced
  /\ UNCHANGED <<outside, impl, sabVars, buffer, writeHead, port, callOutcome>>

\* ------------------------------------------------------- specification
Next ==
  \/ \E contentSamples \in Chunks : QueueMoreContent(contentSamples)
  \/ ReanchorWriteHead
  \/ LockContentMutex
  \/ ReadWriteHead
  \/ WriteSample
  \/ UnlockContentMutex
  \/ SetNumQueuedSamples
  \/ SetWriteHead
  \/ OnSetupMessage
  \/ \E n \in 1..MaxQuantum : ProcessSab(n)
  \/ \E contentSamples \in Chunks : QueueMoreContentClosure(contentSamples)
  \/ OnMessage
  \/ \E n \in 1..MaxQuantum : ProcessClosure(n)

Spec == Init /\ [][Next]_vars

\* the steps of a queueMoreContent call that has begun
ProducerStep ==
  \/ ReanchorWriteHead
  \/ LockContentMutex
  \/ ReadWriteHead
  \/ WriteSample
  \/ UnlockContentMutex
  \/ SetNumQueuedSamples
  \/ SetWriteHead

\* the scheduling the platform gives: the main thread finishes a call it began,
\* the port delivers the messages posted to it, and the audio thread keeps
\* invoking process() with a quantum of positive length
FairSpec ==
  /\ Spec
  /\ WF_vars(ProducerStep)
  /\ WF_vars(OnSetupMessage)
  /\ WF_vars(OnMessage)
  /\ WF_vars(\E n \in 1..MaxQuantum : ProcessSab(n))
  /\ WF_vars(\E n \in 1..MaxQuantum : ProcessClosure(n))

\* ---------------------------------------------------- the quantizer alone
\* the samples k/d of [-1, 1] with denominators up to 2^W, finer than the integers
MaxDen == 2 ^ W
Inputs == UNION {{<<k, d>> : k \in (-d)..d} : d \in 1..MaxDen}

QuantizerInit ==
  /\ EngineInit
  /\ impl = "sab"
  /\ \E sample \in Inputs :
       quantizer = [step |-> "sample", sample |-> sample, int32Value |-> 0, output |-> Zero]
  /\ SchedulerIdle
  /\ MixerIdle

\* lines 333-336: const int32Value = tInt + INT32_MIN
EncodeSample ==
  /\ quantizer.step = "sample"
  /\ quantizer' = [quantizer EXCEPT !.step = "encoded",
                                    !.int32Value = Encode(quantizer.sample)]
  /\ UNCHANGED <<engine, scheduler, mixing>>

\* lines 275-276: outputChannel[i] = t * 2 - 1
DecodeSample ==
  /\ quantizer.step = "encoded"
  /\ quantizer' = [quantizer EXCEPT !.step = "decoded",
                                    !.output = Decode(quantizer.int32Value)]
  /\ UNCHANGED <<engine, scheduler, mixing>>

QuantizerNext == EncodeSample \/ DecodeSample

QuantizerSpec == QuantizerInit /\ [][QuantizerNext]_vars

\* --------------------------------------------- the scrub player (index.js)
\* line 607: now - this.current >= this.timeInterval || this.current === this.initial
Fires(p, t) == t - p.current >= p.timeInterval \/ p.current = p.initial

\* lines 604-613: processFrame() at clock reading t, the callback throwing or
\* not; what it leaves of the player, whether it invoked the callback, with
\* which argument, and whether it reached requestAnimationFrame
processFrame(p, t, throws) ==
  IF ~p.running
  THEN [player |-> p, fired |-> FALSE, arg |-> 0, threw |-> FALSE, requested |-> FALSE]
  ELSE IF ~Fires(p, t)
  THEN [player |-> p, fired |-> FALSE, arg |-> 0, threw |-> FALSE, requested |-> TRUE]
  ELSE IF throws
  THEN [player |-> p, fired |-> TRUE, arg |-> p.current - p.initial, threw |-> TRUE,
        requested |-> FALSE]
  ELSE [player |-> [p EXCEPT !.current = t], fired |-> TRUE, arg |-> p.current - p.initial,
        threw |-> FALSE, requested |-> TRUE]

\* lines 615-617: the assignments of start() before its call of processFrame()
start(p, t) == [p EXCEPT !.running = TRUE, !.inital = t, !.current = p.initial]
\* stop() leaving the flag set
stopKeepsRunning(p) == p
\* lines 620-622
stop(p) == [p EXCEPT !.running = FALSE]
\* scrub() setting the player running
scrubStarts(p, time) == [p EXCEPT !.current = time, !.running = TRUE]
\* scrub() moving the anchor along with the position
scrubMovesAnchor(p, time) == [p EXCEPT !.current = time, !.initial = time]
\* lines 623-625
scrub(p, time) == [p EXCEPT !.current = time]

SchedulerInit ==
  /\ EngineInit
  /\ impl = "closure"
  /\ QuantizerIdle
  /\ SchedulerIdle
  /\ MixerIdle

\* lines 614-619: start(), run by user code inside runInUniquePromise (472-501)
Start ==
  /\ frames < MaxFrames
  /\ \E throws \in BOOLEAN :
       LET done == processFrame(start(scrubPlayer, now), now, throws)
       IN /\ scrubPlayer' = done.player
          /\ frames' = IF done.requested THEN frames + 1 ELSE frames
          /\ tick' = [NoTick EXCEPT !.op = "start", !.fired = done.fired, !.arg = done.arg,
                                    !.threw = done.threw,
                                    !.surfaced = IF done.threw THEN "promise" ELSE "none",
                                    !.requested = done.requested,
                                    !.startedAt = now, !.firedAt = now, !.previous = now,
                                    !.calls = IF done.fired THEN 1 ELSE 0,
                                    !.halted = FALSE,
                                    !.wasRunning = scrubPlayer.running]
  /\ UNCHANGED <<engine, quantizer, mixing, now>>

\* lines 620-622: stop()
Stop ==
  /\ scrubPlayer' = stop(scrubPlayer)
  /\ tick' = [tick EXCEPT !.op = "stop", !.fired = FALSE, !.threw = FALSE,
                          !.surfaced = "none", !.requested = FALSE, !.halted = TRUE]
  /\ UNCHANGED <<engine, quantizer, mixing, now, frames>>

\* lines 623-625: scrub(time)
Scrub(time) ==
  /\ scrubPlayer' = scrub(scrubPlayer, time)
  /\ tick' = [tick EXCEPT !.op = "scrub", !.fired = FALSE, !.threw = FALSE,
                          !.surfaced = "none", !.requested = FALSE, !.scrubbed = TRUE,
                          !.sought = time]
  /\ UNCHANGED <<engine, quantizer, mixing, now, frames>>

\* line 611: a callback handed to requestAnimationFrame runs processFrame()
ProcessFrame ==
  /\ frames > 0
  /\ \E throws \in BOOLEAN :
       LET done == processFrame(scrubPlayer, now, throws)
       IN /\ scrubPlayer' = done.player
          /\ frames' = IF done.requested THEN frames ELSE frames - 1
          /\ tick' = [tick EXCEPT !.op = "frame", !.fired = done.fired,
                                  !.arg = IF done.fired THEN done.arg ELSE tick.arg,
                                  !.threw = done.threw,
                                  !.surfaced = IF done.threw THEN "uncaught" ELSE "none",
                                  !.requested = done.requested,
                                  !.firedAt = IF done.fired THEN now ELSE tick.firedAt,
                                  !.previous = IF done.fired THEN tick.firedAt
                                               ELSE tick.previous,
                                  !.calls = IF done.fired THEN Min(tick.calls + 1, MaxCalls)
                                            ELSE tick.calls,
                                  !.sought = IF done.fired THEN Undefined ELSE tick.sought]
  /\ UNCHANGED <<engine, quantizer, mixing, now>>

\* the clock moves on
Advance ==
  /\ now < MaxTime
  /\ now' = now + 1
  /\ UNCHANGED <<engine, quantizer, mixing, scrubPlayer, frames, tick>>

SchedulerNext ==
  \/ Start
  \/ Stop
  \/ \E time \in 0..MaxTime : Scrub(time)
  \/ ProcessFrame
  \/ Advance

SchedulerSpec == SchedulerInit /\ [][SchedulerNext]_vars

\* the browser runs every animation-frame callback it was handed
FairSchedulerSpec == SchedulerSpec /\ WF_vars(ProcessFrame)

\* ---------------------------------------------------- the mixer (index.js)
\* arithmetic on samples <<numerator, denominator>>, denominators positive
Times(a, b) == <<a[1] * b[1], a[2] * b[2]>>
Plus(a, b) == <<a[1] * b[2] + b[1] * a[2], a[2] * b[2]>>
Less(a, b) == a[1] * b[2] < b[1] * a[2]
Same(a, b) == a[1] * b[2] = b[1] * a[2]

\* lines 570-575 left out: the total stored as it is
ClampNot(total) == total
\* lines 570-575: the hard clip to [-1, 1]
Clamp(total) ==
  IF Less(total, <<-1, 1>>) THEN <<-1, 1>>
  ELSE IF Less(<<1, 1>>, total) THEN <<1, 1>>
  ELSE total

\* lines 566-569: the inner loop of mix() over this.tracks, from track j (1-based) on
RECURSIVE Total(_, _, _, _)
Total(total, list, i, j) ==
  IF j > Len(list) THEN total
  ELSE Total(Plus(total, Times(track[list[j]].data[i], track[list[j]].volume)), list, i, j + 1)

\* mix() adding the tracks onto what this.data held
mixOntoData(m) == [i \in 1..m.bufferSize |-> Clamp(Total(m.data[i], m.tracks, i, 1))]
\* lines 563-578: the buffer mix() leaves in this.data
mix(m) == [i \in 1..m.bufferSize |-> Clamp(Total(Zero, m.tracks, i, 1))]

\* pushSamples() only writing to the status log
pushSamplesDropped(samples) == [queued |-> <<>>, logged |-> TRUE]
\* lines 440-446: window.master.pushSamples; the queueMoreContent calls it
\* makes, and whether it wrote to the status log instead
pushSamples(samples) ==
  IF master.outputStream # "undefined"
  THEN [queued |-> <<samples>>, logged |-> FALSE]
  ELSE [queued |-> <<>>, logged |-> TRUE]

\* the sample values and the volumes the script gives its tracks
TrackValues == {<<1, 1>>, <<-1, 1>>, <<1, 2>>}
Volumes == {<<1, 1>>, <<1, 2>>}

MixerInit ==
  /\ EngineInit
  /\ impl = "closure"
  /\ QuantizerIdle
  /\ SchedulerIdle
  /\ mixer = [tracks |-> <<>>, bufferSize |-> BufferSize, data |-> [k \in 1..BufferSize |-> Zero]]
  /\ track \in [TrackNames -> {[data |-> TrackData(v), volume |-> g] :
                                 v \in TrackValues, g \in Volumes}]
  /\ master = [outputStream |-> "undefined"]
  /\ pushed = NoPush

\* lines 518-530: the Run button, which runs the editor's script, gets its
\* listener and is enabled inside turnMasterOn(), after the output stream was
\* stored in window.master.outputStream
ScriptRuns == master.outputStream # "undefined"

\* lines 559-561: addTrack(track)
AddTrack(name) ==
  /\ ScriptRuns
  /\ Len(mixer.tracks) < MaxTracks
  /\ mixer' = [mixer EXCEPT !.tracks = Append(mixer.tracks, name)]
  /\ pushed' = [NoPush EXCEPT !.op = "addTrack"]
  /\ UNCHANGED <<engine, quantizer, scheduler, track, master>>

\* lines 562-578: mix()
Mix ==
  /\ ScriptRuns
  /\ mixer' = [mixer EXCEPT !.data = mix(mixer)]
  /\ pushed' = [NoPush EXCEPT !.op = "mix"]
  /\ UNCHANGED <<engine, quantizer, scheduler, track, master>>

\* lines 579-581: send()
Send ==
  /\ ScriptRuns
  /\ LET done == pushSamples(mixer.data)
     IN pushed' = [op |-> "send", queued |-> done.queued, logged |-> done.logged]
  /\ UNCHANGED <<engine, quantizer, scheduler, mixer, track, master>>

\* lines 503-510: turnMasterOn() has stored the stream in window.master.outputStream
TurnMasterOn ==
  /\ master.outputStream = "undefined"
  /\ master' = [master EXCEPT !.outputStream = "stream"]
  /\ pushed' = [NoPush EXCEPT !.op = "turnMasterOn"]
  /\ UNCHANGED <<engine, quantizer, scheduler, mixer, track>>

MixerNext ==
  \/ \E name \in TrackNames : AddTrack(name)
  \/ Mix
  \/ Send
  \/ TurnMasterOn

MixerSpec == MixerInit /\ [][MixerNext]_vars

\* the machine variables of whichever build runs
queuedCount ==
  IF impl = "sab" THEN getMachineVarAtomic("numQueuedSamples") ELSE remainingQueuedContent
\* the empty state, as the operation that completed last left it
LeftEmpty == last.playheadAfter = 0 /\ last.writeheadAfter = 0 /\ last.queuedAfter = 0

\* =============================================================== claims
EnqueueDone == last.op = "enqueue"
DrainDone == last.op = "drain"
Rejected == EnqueueDone /\ last.outcome # "ok"
\* a drain of a worklet that is set up, with no enqueue part-way
QuietDrainDone == DrainDone /\ last.setup /\ ~last.interleaved

\* C1: in every reachable state 0 <= queuedCount <= capacity.
C1_QueuedCountWithinCapacity ==
  queuedCount >= 0 /\ queuedCount <= maxQueuedSamples

\* C2: an enqueue of a chunk longer than the capacity fails with
\* OversizeChunkError and leaves playhead = writehead = queuedCount = 0.
C2_OversizeResets ==
  (EnqueueDone /\ last.len > maxQueuedSamples)
    => (last.outcome = "OversizeChunkError" /\ LeftEmpty)

\* C3: an enqueue of a chunk that fits the capacity but not the free room fails
\* with CapacityExceededError and leaves playhead = writehead = queuedCount = 0.
C3_OverflowResets ==
  (EnqueueDone /\ last.len <= maxQueuedSamples
     /\ last.queuedBefore + last.len > maxQueuedSamples)
    => (last.outcome = "CapacityExceededError" /\ LeftEmpty)

\* C4: the error of a rejected enqueue is the outcome of the queueMoreContent
\* call that submitted the chunk (with the port empty the latest call is the
\* one whose chunk was handled last), and the chunk is not submitted again.
C4_ErrorRaisedToCaller ==
  (Rejected /\ port = <<>>) => callOutcome = last.outcome

\* C5: after a sequence of enqueues and drains, each one atomic step, whose
\* queued total never exceeded the capacity, queuedCount is the sum of the
\* enqueued chunk lengths minus the number of real samples drained.
C5_NoLossCount ==
  (call.pc = "idle" /\ ~exceeded /\ ~raced) => queuedCount = netQueued

\* C5 witness: chunks were taken in, a drain produced real samples, and some
\* samples are still queued.
C5_Witness ==
  /\ call.pc = "idle" /\ ~exceeded /\ ~raced
  /\ DrainDone /\ last.numReal > 0 /\ netQueued > 0

C7_UnderflowIsSilent ==
  (QuietDrainDone /\ ~last.locked /\ last.queuedBefore < last.len)
    => /\ last.numReal = last.queuedBefore
       /\ \A k \in 1..Len(outputChannel) : k > last.queuedBefore => outputChannel[k] = Zero
       /\ last.queuedAfter = 0

\* C8: a drain of n samples with the lock free and queuedCount >= n returns n
\* real samples, decrements queuedCount by n and advances playhead by n modulo
\* the capacity.
C8_FullDrain ==
  (QuietDrainDone /\ ~last.locked /\ last.queuedBefore >= last.len)
    => /\ last.numReal = last.len
       /\ last.queuedAfter = last.queuedBefore - last.len
       /\ last.playheadAfter = (last.playheadBefore + last.len) % maxQueuedSamples

\* C9: while the queued total never exceeded the capacity, the real samples a
\* drain returns are the oldest samples taken in and not yet returned, in
\* enqueue order.
C9_DrainsArePrefix ==
  (DrainDone /\ ~exceeded) => Take(outputChannel, last.numReal) = last.expect

\* C10: a drain invoked while the advisory lock is held leaves playhead,
\* writehead, queuedCount and the storage unchanged and yields a silent quantum.
C10_LockedDrainIsInert ==
  [][\A n \in 1..MaxQuantum :
       (ProcessSab(n) /\ getMachineVarAtomic("contentMutexIsLocked") = 1)
         => /\ UNCHANGED <<sharedArray, sharedArrayMachineState>>
            /\ outputChannel' = Silence(n)]_vars

\* C10 witness: a drain ran while the lock was held and samples were queued.
C10_Witness ==
  impl = "sab" /\ DrainDone /\ last.locked /\ last.queuedBefore > 0

\* C11: in every reachable state, whether the lock is free or held and whether
\* or not the producer ever takes another step, the render callback can run to
\* its end for every quantum length; a run that found the lock held ended with
\* a complete silent quantum.
C11_RenderNeverWaits ==
  /\ \A n \in 1..MaxQuantum :
       IF impl = "sab" THEN ENABLED ProcessSab(n) ELSE ENABLED ProcessClosure(n)
  /\ (DrainDone /\ last.locked) => outputChannel = Silence(last.len)

\* C11 witness: the render callback completed a quantum of the longest length
\* while the producer sat between its lock and its unlock, the lock still held.
C11_Witness ==
  /\ impl = "sab" /\ call.pc \in {"readWriteHead", "write"}
  /\ getMachineVarAtomic("contentMutexIsLocked") = 1
  /\ DrainDone /\ last.locked /\ last.len = MaxQuantum

\* the sample values a chunk can carry, and what the quantizer makes of them
Queueable == {Chunk(MaxChunk)[k] : k \in 1..MaxChunk}
Decoded == {Decode(Encode(sample)) : sample \in Queueable}

\* C12: every completed render invocation, whatever enqueue errors came before
\* it, ended without error with a complete quantum: the real samples first,
\* each a queued sample or its decoding, and zeros for the rest.
C12_RenderHasNoErrorOutcome ==
  DrainDone =>
    /\ last.outcome = "ok"
    /\ Len(outputChannel) = last.len
    /\ \A k \in 1..Len(outputChannel) :
         IF k <= last.numReal THEN outputChannel[k] \in Queueable \cup Decoded
         ELSE outputChannel[k] = Zero

\* C12 witness: after an enqueue that raised an error, a render invocation
\* returned a quantum holding both real samples and zeros.
C12_Witness ==
  /\ DrainDone /\ exceeded
  /\ last.numReal > 0 /\ last.numReal < last.len

\* C13: once the setup message has been handled, samples that are queued lead
\* to a render invocation that writes real samples into its quantum (so that,
\* with the render callback invoked again and again, the queue empties).
C13_QueuedSamplesAreHeard ==
  (impl = "sab" /\ port = <<>> /\ call.pc = "idle" /\ queuedCount > 0)
    ~> (DrainDone /\ last.numReal > 0)

\* C14: a rejected enqueue counts none of its chunk's samples: queuedCount
\* after the rejection is no larger than it was before the enqueue.
C14_RejectedWritesNothing ==
  Rejected => last.queuedAfter <= last.queuedBefore

\* the heads of whichever build runs
playheadNow == IF impl = "sab" THEN getMachineVarAtomic("playhead") ELSE playHead
writeheadNow == IF impl = "sab" THEN getMachineVarAtomic("writeHead") ELSE writeHead

\* C15: whenever no enqueue and no drain is part-way, writehead is congruent
\* to playhead + queuedCount modulo the capacity.
C15_WriteheadCongruence ==
  call.pc = "idle"
    => writeheadNow % maxQueuedSamples = (playheadNow + queuedCount) % maxQueuedSamples

\* sample - decode(encode(sample)), as a numerator over the denominator RoundTripDen
RoundTripNum ==
  quantizer.sample[1] * quantizer.output[2] - quantizer.output[1] * quantizer.sample[2]
RoundTripDen == quantizer.sample[2] * quantizer.output[2]
Abs(a) == IF a < 0 THEN -a ELSE a

StartedFresh == ~tick.halted /\ ~tick.wasRunning /\ ~tick.scrubbed

\* C17: after start() on a stopped player, while less than one timeInterval
\* has passed since, the callback has been invoked exactly once, with
\* argument 0, however many animation frames have run.
C17_FiresOnceOnStart ==
  (StartedFresh /\ now - tick.startedAt < TimeInterval)
    => (tick.calls = 1 /\ tick.arg = 0)

\* C18: start() leaves running = true and the anchor at the clock reading of
\* the start, and an invocation of the callback after a start() with no
\* scrub() since receives the time from that start to the firing before it
\* (to the start itself when it is the first), never the clock reading.
C18_StartAnchorsAtNow ==
  /\ tick.op = "start" => (scrubPlayer.running /\ scrubPlayer.initial = tick.startedAt)
  /\ (tick.fired /\ ~tick.scrubbed) => tick.arg = tick.previous - tick.startedAt

\* C19: from stop() until the next start() no step invokes the callback or
\* asks for another animation frame, and the frames still pending at the
\* stop run out: eventually none is pending (or start() was called again).
C19_StoppedPlayerGoesQuiet ==
  /\ [][(tick.halted /\ tick'.halted)
          => (~tick'.fired /\ ~tick'.requested /\ tick'.calls = tick.calls
              /\ frames' <= frames)]_vars
  /\ (tick.halted ~> (frames = 0 \/ ~tick.halted))

\* C19 witness: after a start() and a stop(), the frame that was pending ran,
\* invoked nothing and left no frame pending.
C19_Witness ==
  /\ tick.halted /\ tick.startedAt > 0 /\ tick.calls > 0
  /\ tick.op = "frame" /\ ~tick.fired /\ frames = 0

\* C20: when the callback throws during a tick, the player is still running
\* and that tick has asked for the next animation frame, so a frame is pending.
C20_ThrowDoesNotStall ==
  tick.threw => (scrubPlayer.running /\ tick.requested /\ frames > 0)

\* C21: scrub(time) sets current to time and changes nothing else of the
\* player: running, the anchor and the pending frames stay, no callback is
\* invoked; and the first invocation after it, with no start() between,
\* receives time - anchor.
C21_ScrubMovesOnlyCurrent ==
  [][/\ (\A time \in 0..MaxTime :
           Scrub(time) => (/\ scrubPlayer' = [scrubPlayer EXCEPT !.current = time]
                           /\ frames' = frames
                           /\ ~tick'.fired /\ tick'.calls = tick.calls))
      /\ ((tick'.op = "frame" /\ tick'.fired /\ tick.sought # Undefined)
            => tick'.arg = tick.sought - scrubPlayer.initial)]_vars

\* C21 witness: a frame invoked the callback with the position a scrub() had
\* set, which is not the clock reading of the firing before it.
C21_Witness ==
  /\ tick.op = "frame" /\ tick.fired /\ tick.scrubbed
  /\ tick.arg > 0 /\ tick.arg # tick.previous

\* the number of times a track was added to the mixer
Occurrences(name) == Cardinality({j \in 1..Len(mixer.tracks) : mixer.tracks[j] = name})
\* the weighted sum of sample i over the tracks, each counted as often as it
\* was added, over the denominator WeightedDen(i)
WeightedDen(i) ==
  LET name1 == "track1"
      name2 == "track2"
  IN track[name1].data[i][2] * track[name1].volume[2]
       * track[name2].data[i][2] * track[name2].volume[2]
WeightedNum(i) ==
  LET name1 == "track1"
      name2 == "track2"
  IN Occurrences(name1) * track[name1].data[i][1] * track[name1].volume[1]
       * track[name2].data[i][2] * track[name2].volume[2]
     + Occurrences(name2) * track[name2].data[i][1] * track[name2].volume[1]
       * track[name1].data[i][2] * track[name1].volume[2]

\* C22: after mix() every output sample is the gain-weighted sum of the
\* tracks' samples at its index, a track added twice counted twice, clamped to
\* [-1, 1]: the sum itself when it lies in [-1, 1], else the bound it passed.
C22_MixIsClampedWeightedSum ==
  pushed.op = "mix" =>
    \A i \in 1..BufferSize :
      LET out == mixer.data[i]
          num == WeightedNum(i)
          den == WeightedDen(i)
      IN /\ -out[2] <= out[1] /\ out[1] <= out[2]
         /\ IF num > den THEN out[1] = out[2]
            ELSE IF num < -den THEN out[1] = -out[2]
            ELSE out[1] * den = num * out[2]

\* C22 witness: two tracks of value 1.0 and volume 1.0 were mixed, the sum 2.0
\* clipped to 1.0.
C22_Witness ==
  /\ pushed.op = "mix" /\ mixer.tracks = <<"track1", "track2">>
  /\ \A name \in TrackNames : track[name].data[1] = <<1, 1>> /\ track[name].volume = <<1, 1>>
  /\ Same(mixer.data[1], <<1, 1>>)

stream ==
  IF impl = "sab" THEN [queueMoreContent |-> "part_000"]
                  ELSE [queueMoreContent |-> "streaming.ts"]

\* C24: the opened stream offers play() and pause() (tests/test1.ts lines 50-52
\* call both), so that pause() can suspend quantum delivery with playhead,
\* writehead, queuedCount and storage kept. The returned object has neither.
C24_StreamOffersPlayAndPause == {"play", "pause"} \subseteq DOMAIN stream

\* C25: during an accepted enqueue the advisory lock covers every change the
\* producer makes: in no state is the lock clear while the producer has
\* written samples of the chunk and has not yet advanced both writehead and
\* queuedCount.
C25_LockCoversEnqueue ==
  (call.pc \in {"write", "setNumQueued", "setWriteHead"} /\ call.i > 0)
    => getMachineVarAtomic("contentMutexIsLocked") = 1

C27_FirstSampleAtPlayhead ==
  (EnqueueDone /\ last.outcome = "ok" /\ last.queuedBefore = 0
     /\ last.len <= maxQueuedSamples /\ call.pc = "idle")
    => IF impl = "sab"
       THEN sharedArray[playheadNow] = Encode(Chunk(last.len)[1])
       ELSE buffer[playheadNow] = Chunk(last.len)[1]

\* a step of the producer: a call of queueMoreContent, one of its accesses to
\* the shared memory, or the handling of a posted chunk
EnqueueStep ==
  \/ \E contentSamples \in Chunks : QueueMoreContent(contentSamples)
  \/ ProducerStep
  \/ \E contentSamples \in Chunks : QueueMoreContentClosure(contentSamples)
  \/ OnMessage
\* the storage and the lock of whichever build runs (the closure build has no lock)
storageNow == IF impl = "sab" THEN sharedArray ELSE buffer
lockNow == IF impl = "sab" THEN getMachineVarAtomic("contentMutexIsLocked") ELSE 0

C29_FiringsAreSpaced ==
  [][/\ (ProcessFrame /\ scrubPlayer.running)
          => (tick'.fired <=> (now - scrubPlayer.current >= TimeInterval \/ tick.calls = 0))
     /\ (ProcessFrame /\ tick'.fired /\ tick.sought = Undefined)
          => now - tick.firedAt >= TimeInterval]_vars

\* C30: a tick of a running player whose callback returns normally (or is not
\* invoked) asks for the next animation frame, and after it exactly one
\* animation frame is pending.
C30_OneTickPending ==
  [][(ProcessFrame /\ scrubPlayer.running /\ ~tick'.threw)
       => (tick'.requested /\ frames' = 1)]_vars

\* C31: the player starts stopped; running becomes true only in a step of
\* start() and false only in a step of stop(): animation frames, callback
\* invocations (throwing or not), scrub() and the clock leave running alone.
C31_RunningChangesByStartAndStop ==
  /\ ~scrubPlayer.running
  /\ [][/\ (~scrubPlayer.running /\ scrubPlayer'.running) => Start
        /\ (scrubPlayer.running /\ ~scrubPlayer'.running) => Stop]_vars

\* C31 witness: a running player was scrubbed and then ran an animation frame
\* whose callback threw, and it is still running.
C31_Witness ==
  tick.op = "frame" /\ tick.threw /\ tick.scrubbed /\ scrubPlayer.running

\* C32: decoding the encoding of the sample 0.0 does not give 0.0 back: it
\* gives a value that is not zero and lies within one quantization step,
\* 2 / 2^W, of zero.
C32_ZeroDoesNotRoundTrip ==
  (quantizer.step = "decoded" /\ quantizer.sample[1] = 0)
    => /\ quantizer.output[1] # 0
       /\ Abs(quantizer.output[1]) * (2 ^ W) <= 2 * quantizer.output[2]

\* C32 witness: the sample 0.0 was encoded as -1 and decoded to a negative value.
C32_Witness ==
  /\ quantizer.step = "decoded" /\ quantizer.sample[1] = 0
  /\ quantizer.int32Value = -1 /\ quantizer.output[1] < 0

\* C33: in every reachable state playhead and writehead lie in [0, capacity),
\* and so does the index of every slot that an enqueue writes or a drain
\* reads from them, for every position of a chunk or of a quantum, wrapped
\* past the end of the storage or not.
C33_IndicesWithinStorage ==
  /\ playheadNow \in Slots
  /\ writeheadNow \in Slots
  /\ impl = "sab" =>
       /\ \A i \in 0..(MaxChunk - 1) :
            /\ targetIndex(call.writeHead, i) \in Slots
            /\ targetIndex(writeheadNow, i) \in Slots
       /\ \A i \in 0..(MaxQuantum - 1) : sourceIndex(playheadNow, i) \in Slots
  /\ impl = "closure" =>
       \A index \in 0..(2 * maxQueuedSamples) :
         indexFromPlayHead(index) \in Slots /\ indexFromWriteHead(index) \in Slots

\* C33 witness: a quantum of real samples that wraps past the end of the storage
\* was read.
C33_Witness ==
  /\ impl = "closure" /\ DrainDone
  /\ last.numReal = last.len
  /\ last.playheadBefore + last.len > maxQueuedSamples
  /\ last.playheadAfter < last.playheadBefore

\* C34: mix() and send() only read the tracks: both leave every track's
\* buffer and volume and the track list as they were (send() leaves the
\* output buffer too), so a second mix() right after a mix() would leave the
\* same output buffer.
C34_MixAndSendOnlyRead ==
  [][/\ Mix => /\ track' = track
               /\ mixer'.tracks = mixer.tracks
               /\ mix(mixer') = mixer'.data
     /\ Send => (track' = track /\ mixer' = mixer)]_vars

\* C34 witness: two tracks were mixed into an output buffer that is not silent.
C34_Witness ==
  /\ pushed.op = "mix" /\ Len(mixer.tracks) = 2
  /\ ~Same(mixer.data[1], Zero) /\ ~Same(mixer.data[1], mixer.data[2])

\* C35: after any sequence of start(), stop() and scrub() calls and of
\* animation frames, at most one animation frame of the player is pending.
C35_AtMostOneTickPending == frames <= 1

\* the sab build alone, the one that has the advisory lock: its producer,
\* the setup message and process(), under the scheduling of FairSpec
SabInit == Init /\ impl = "sab"
SabNext ==
  \/ \E contentSamples \in Chunks : QueueMoreContent(contentSamples)
  \/ ProducerStep
  \/ OnSetupMessage
  \/ \E n \in 1..MaxQuantum : ProcessSab(n)
FairSabSpec ==
  /\ SabInit /\ [][SabNext]_vars
  /\ WF_vars(ProducerStep)
  /\ WF_vars(OnSetupMessage)
  /\ WF_vars(\E n \in 1..MaxQuantum : ProcessSab(n))

\* C36: the advisory lock is clear whenever no queueMoreContent call is in
\* progress; only the producer's steps of lines 324 and 340 change it,
\* process() never does; and a lock that is set is cleared again, the call
\* that set it running on to line 340, so that no lock stays set for ever.
C36_LockIsTheProducers ==
  /\ [](call.pc = "idle" => lockNow = 0)
  /\ [][/\ lockNow' # lockNow => (LockContentMutex \/ UnlockContentMutex)
        /\ \A n \in 1..MaxQuantum : ProcessSab(n) => lockNow' = lockNow]_vars
  /\ (lockNow = 1) ~> (lockNow = 0)

\* C36 witness: process() ran between the steps of a queueMoreContent call
\* that found samples queued, and the call has returned, the lock clear.
C36_Witness ==
  /\ impl = "sab" /\ EnqueueDone /\ last.interleaved /\ raced
  /\ call.pc = "idle" /\ lockNow = 0 /\ last.queuedBefore > 0

====
